---- MODULE Spec2Model ----
(***************************************************************************)
(* Model of src/Inicio.py: the ESTRA energy dashboard.                     *)
(*                                                                         *)
(* Numbers.  The script computes in binary floating point; here every real *)
(* quantity is a fixed-point integer.  Power values (base, amplitudes,     *)
(* curve points, means) are counted in units of 1/UNIDAD, chosen so that   *)
(* the three period factors 1/7, 1 and 4.33 are exact.  Sines are counted  *)
(* in thousandths and computed by Bhaskara's rational approximation.       *)
(* Angles are kept as rational multiples of pi: every phase of the         *)
(* parameter table is a multiple of pi/4.                                  *)
(***************************************************************************)
EXTENDS Integers, Sequences, FiniteSets, TLC

VARIABLES
    \* arguments and outcome of one direct call of generar_datos_energia
    centro, periodo, numero_periodos, retorno,
    \* two series and the metrics entry computed from them (lines 628-633)
    teorico, real, resumen

VARIABLES
    \* the two sidebar select boxes
    maquina_seleccionada, periodo_seleccionado,
    \* st.session_state.datos_endpoint
    datos_endpoint,
    \* the st.cache_data entry of consultar_endpoint_energia, and the clock
    cache, reloj,
    \* what the call of consultar_endpoint_energia in the last run of the script
    \* did (line 301); SinConsulta after a run that did not call it
    ultima_consulta,
    \* what the last run of the script computed: the plotted series and the
    \* metrics list
    grafico, todas_maquinas,
    \* the series each selection produced in the fresh session
    referencia

VARIABLES
    \* whether the import of the Gemini library succeeded (lines 9-13), and the
    \* text of the sidebar's API-key field ("" also stands for the None of line 278)
    GEMINI_AVAILABLE, api_key_gemini,
    \* st.session_state.mensajes and st.session_state.pregunta_seleccionada
    mensajes, pregunta_seleccionada,
    \* what the last run of the script did with a prompt (lines 513-587);
    \* SinProceso after a run that processed none
    ultimo_proceso

varsGen == <<centro, periodo, numero_periodos, retorno>>
varsSum == <<teorico, real, resumen>>
varsSesion == <<maquina_seleccionada, periodo_seleccionado, datos_endpoint, cache, reloj,
                ultima_consulta, grafico, todas_maquinas, referencia>>
varsChat == <<GEMINI_AVAILABLE, api_key_gemini, mensajes, pregunta_seleccionada, ultimo_proceso>>
vars == <<varsGen, varsSum, varsSesion, varsChat>>

----------------------------------------------------------------------------
\* Bounds of the model

\* largest numero_periodos a direct call is given (the script uses 30, 24, 12)
MaxPuntos == 30

\* longest series handed directly to the metrics computation
MaxSerie == 2

\* seconds the clock advances in one step, and the last instant modelled
Paso == 100
MaxReloj == 400

\* longest chat history a prompt is added to
MaxMensajes == 3

----------------------------------------------------------------------------
\* Fixed-point arithmetic

\* power values are counted in 1/700: 1/7 = 100/700, 1 = 700/700, 4.33 = 3031/700
UNIDAD == 700

\* sines are counted in thousandths
MILESIMAS == 1000

Abs(x) == IF x < 0 THEN -x ELSE x

\* sin(pi * p / q) for 0 <= p <= q, in thousandths (Bhaskara I)
SenoMedioGiro(p, q) ==
    LET w == 4 * p * (q - p)
    IN  (4 * MILESIMAS * w) \div (5 * q * q - w)

\* np.sin(pi * a / b) for any integer a and b > 0, in thousandths
Seno(a, b) ==
    LET r == a % (2 * b)
    IN  IF r <= b THEN SenoMedioGiro(r, b) ELSE -SenoMedioGiro(r - b, b)

\* amplitude * sine, the sine in thousandths, rounded toward zero
PorSeno(amp, s) == IF s >= 0 THEN (amp * s) \div MILESIMAS
                             ELSE -((amp * (-s)) \div MILESIMAS)

\* ratios (|real - teorico| / teorico) are counted in 1/10000
ESCALA == 10000

\* a / b rounded toward zero, b # 0
Cociente(a, b) ==
    IF (a >= 0) = (b > 0) THEN Abs(a) \div Abs(b) ELSE -(Abs(a) \div Abs(b))

RECURSIVE Suma(_)
Suma(s) == IF s = <<>> THEN 0 ELSE Head(s) + Suma(Tail(s))

\* np.mean of a non-empty array
media(s) == Cociente(Suma(s), Len(s))

----------------------------------------------------------------------------
\* generar_datos_energia

maquinas == <<"H75", "Extrusora LEISTRITZ ZSE-27", "Inyectora ENGEL e-motion 310">>

\* base and amplitudes as written; fase1 and fase2 in quarters of pi
parametros ==
    ("H75" :>
        [base |-> 180, amplitud1 |-> 35, amplitud2 |-> 25, fase1 |-> 0, fase2 |-> 4]) @@
    ("Extrusora LEISTRITZ ZSE-27" :>
        [base |-> 220, amplitud1 |-> 50, amplitud2 |-> 40, fase1 |-> 1, fase2 |-> -1]) @@
    ("Inyectora ENGEL e-motion 310" :>
        [base |-> 160, amplitud1 |-> 30, amplitud2 |-> 20, fase1 |-> 2, fase2 |-> -2])

\* the period factors, in 1/UNIDAD
factor_periodo == ("Día" :> 100) @@ ("Semana" :> 700) @@ ("Mes" :> 3031)

\* a plausible slip: a default of 0 instead of 1
factor_de_defecto_cero(p) == IF p \in DOMAIN factor_periodo THEN factor_periodo[p] ELSE 0

\* factor_periodo.get(periodo, 1)
factor_de(p) == IF p \in DOMAIN factor_periodo THEN factor_periodo[p] ELSE UNIDAD

\* a plausible slip: np.arange(1, n), one index short
arange_corta(n) == IF n >= 2 THEN [i \in 1..(n - 1) |-> i] ELSE <<>>

\* np.arange(1, n + 1): empty when n <= 0
arange(n) == IF n >= 1 THEN [i \in 1..n |-> i] ELSE <<>>

\* np.sin(2 * np.pi * t / n + fase), fase in quarters of pi: pi * (8t + fase*n) / (4n)
seno_punto(t, n, fase) == Seno(8 * t + fase * n, 4 * n)

\* base + amp * sin(...) over the whole index array (signo = -1 for the second curve)
curva(tiempo, n, base_ajustada, amp_ajustada, fase, signo) ==
    [i \in DOMAIN tiempo |->
        base_ajustada + signo * PorSeno(amp_ajustada, seno_punto(tiempo[i], n, fase))]

\* a plausible slip: only the first point is overwritten
cerrar_solo_inicio(a, valor) == [i \in DOMAIN a |-> IF i = 1 THEN valor ELSE a[i]]

\* a[0] = a[-1] = valor, on a non-empty array
cerrar(a, valor) == [i \in DOMAIN a |-> IF i = 1 \/ i = Len(a) THEN valor ELSE a[i]]

SinSerie(err) ==
    [error |-> err, tiempo |-> <<>>, frente_a_abt |-> <<>>, frente_a_linea_base |-> <<>>]

\* the body of generar_datos_energia once params is bound
series_de(params, p, n) ==
    LET tiempo == arange(n)
        factor == factor_de(p)
        base_ajustada == params.base * factor
        amp1_ajustada == params.amplitud1 * factor
        amp2_ajustada == params.amplitud2 * factor
        frente_a_abt == curva(tiempo, n, base_ajustada, amp1_ajustada, params.fase1, 1)
        frente_a_linea_base == curva(tiempo, n, base_ajustada, amp2_ajustada, params.fase2, -1)
    IN  IF Len(tiempo) = 0
        THEN SinSerie("IndexError")                \* frente_a_abt[0] on an empty array
        ELSE [error |-> "ninguno",
              tiempo |-> tiempo,
              frente_a_abt |-> cerrar(frente_a_abt, base_ajustada),
              frente_a_linea_base |-> cerrar(frente_a_linea_base, base_ajustada)]

\* a plausible slip: parametros.get(centro, parametros["H75"])
generar_con_maquina_por_defecto(c, p, n) ==
    series_de(IF c \in DOMAIN parametros THEN parametros[c] ELSE parametros["H75"], p, n)

\* a plausible slip: the base taken from the stored endpoint data when there is any
generar_desde_datos_guardados(c, p, n) ==
    IF c \notin DOMAIN parametros
    THEN SinSerie("KeyError")
    ELSE IF datos_endpoint.presente
    THEN series_de([parametros[c] EXCEPT !.base = @ + datos_endpoint.valor.tam], p, n)
    ELSE series_de(parametros[c], p, n)

generar_datos_energia(c, p, n) ==
    IF c \notin DOMAIN parametros
    THEN SinSerie("KeyError")                      \* params = parametros[centro]
    ELSE series_de(parametros[c], p, n)

----------------------------------------------------------------------------
\* The metrics entry of one machine (lines 628-633)

Finito(v) == [clase |-> "finito", valor |-> v, error |-> "ninguno"]

\* a plausible slip: the deviation taken relative to the real mean
eficiencia_sobre_real(teorico_medio, real_medio) ==
    IF real_medio = 0
    THEN [clase |-> "nan", valor |-> 0, error |-> "ninguno"]
    ELSE Finito((ESCALA - Cociente(Abs(real_medio - teorico_medio) * ESCALA, real_medio)) * 100)

\* (1 - abs(np.mean(real) - np.mean(teorico)) / np.mean(teorico)) * 100 on
\* np.float64 values, in 1/ESCALA of a percent.  A float64 division by zero
\* raises nothing: x / 0 is inf for x > 0 and nan for x = 0, and the result
\* carries it on as -inf or nan.
eficiencia(teorico_medio, real_medio) ==
    LET desvio == Abs(real_medio - teorico_medio)
    IN  IF teorico_medio = 0
        THEN IF desvio = 0
             THEN [clase |-> "nan", valor |-> 0, error |-> "ninguno"]
             ELSE [clase |-> "-inf", valor |-> 0, error |-> "ninguno"]
        ELSE Finito((ESCALA - Cociente(desvio * ESCALA, teorico_medio)) * 100)

\* the dictionary appended to todas_maquinas
entrada_maquina(maquina, serie_teorico, serie_real) ==
    [maquina |-> maquina,
     teorico |-> media(serie_teorico),
     real |-> media(serie_real),
     eficiencia |-> eficiencia(media(serie_teorico), media(serie_real))]

----------------------------------------------------------------------------
\* The variables of the direct calls, before a call

SinLlamar == SinSerie("sin llamar")

SinResumen == [maquina |-> "", teorico |-> 0, real |-> 0,
               eficiencia |-> [clase |-> "sin calcular", valor |-> 0, error |-> "ninguno"]]

\* the direct-call variables at rest
GenEnReposo ==
    /\ centro = "H75" /\ periodo = "Semana" /\ numero_periodos = 24
    /\ retorno = SinLlamar

SumEnReposo == teorico = <<>> /\ real = <<>> /\ resumen = SinResumen

----------------------------------------------------------------------------
\* consultar_endpoint_energia and its cache

\* seconds a cached result is served
TTL == 300

\* JSON values, by class and size; None is Python's None
None == [clase |-> "None", tam |-> 0]
Dict(k) == [clase |-> "dict", tam |-> k]
List(k) == [clase |-> "list", tam |-> k]

\* a plausible slip: "if datos_endpoint is not None:"
Verdadero_salvo_None(d) == d.clase # "None"

\* the truth value Python gives a value in "if datos_endpoint:"
Verdadero(d) == d.tam > 0

\* the classes each exception is an instance of
Ancestros(exc) ==
    CASE exc = "KeyError" -> {"KeyError", "LookupError", "Exception"}
      [] exc = "FileNotFoundError" -> {"FileNotFoundError", "OSError", "Exception"}
      [] exc = "Timeout" -> {"Timeout", "RequestException", "OSError", "Exception"}
      [] exc = "ConnectionError" -> {"ConnectionError", "RequestException", "OSError", "Exception"}
      [] exc = "TooManyRedirects" -> {"TooManyRedirects", "RequestException", "OSError", "Exception"}
      [] exc = "RuntimeError" -> {"RuntimeError", "Exception"}
      [] exc = "json.JSONDecodeError" -> {"json.JSONDecodeError", "ValueError", "Exception"}
      [] exc = "requests.JSONDecodeError" ->
             {"requests.JSONDecodeError", "RequestException", "ValueError", "Exception"}
      [] OTHER -> {"Exception"}

\* a plausible slip: the catch-all clause left out
manejadores_sin_generico == <<"Timeout", "ConnectionError", "RequestException">>

\* the except clauses of the outer try, in order
manejadores_externos == <<"Timeout", "ConnectionError", "RequestException", "Exception">>

\* what a call that ran the function body in the environment e reports
Informe(e, ret, exc, pidio) ==
    [modo |-> "ejecutada", retorno |-> ret, propagada |-> exc, http |-> pidio, entorno |-> e]

\* an exception raised inside the outer try: every clause returns None, and an
\* exception no clause names leaves the function
capturar(e, exc, pidio) ==
    IF \E i \in DOMAIN manejadores_externos : manejadores_externos[i] \in Ancestros(exc)
    THEN Informe(e, None, "ninguna", pidio)
    ELSE Informe(e, None, exc, pidio)

\* the body of consultar_endpoint_energia in the environment e:
\*   e.secretos   "ok", or the exception st.secrets raises
\*   e.peticion   "respuesta", or the exception requests.get raises
\*   e.status     the response's status code
\*   e.cuerpo     the value response.json() returns, when e.json = "ok"
\*   e.json       "ok", or the exception response.json() raises
consultar_endpoint_energia(e) ==
    IF e.secretos # "ok"
    THEN IF "KeyError" \in Ancestros(e.secretos)
         THEN Informe(e, None, "ninguna", FALSE)         \* except KeyError: return None
         ELSE capturar(e, e.secretos, FALSE)
    ELSE IF e.peticion # "respuesta"
    THEN capturar(e, e.peticion, TRUE)
    ELSE IF e.status = 200
    THEN IF e.json = "ok"
         THEN Informe(e, e.cuerpo, "ninguna", TRUE)      \* return data
         ELSE IF "json.JSONDecodeError" \in Ancestros(e.json)
         THEN Informe(e, None, "ninguna", TRUE)          \* except json.JSONDecodeError
         ELSE capturar(e, e.json, TRUE)
    ELSE Informe(e, None, "ninguna", TRUE)               \* any other status code

Entorno(sec, pet, st, cuerpo, js) ==
    [secretos |-> sec, peticion |-> pet, status |-> st, cuerpo |-> cuerpo, json |-> js]

\* the environments a call can meet
Entornos ==
    {Entorno(sec, "respuesta", 200, None, "ok") : sec \in {"KeyError", "FileNotFoundError"}}
    \cup {Entorno("ok", pet, 200, None, "ok") :
              pet \in {"Timeout", "ConnectionError", "TooManyRedirects", "RuntimeError"}}
    \cup {Entorno("ok", "respuesta", st, None, "ok") : st \in {201, 204, 401, 403, 404, 500}}
    \cup {Entorno("ok", "respuesta", 200, d, "ok") : d \in {Dict(3), Dict(0), List(2), None}}
    \cup {Entorno("ok", "respuesta", 200, None, js) :
              js \in {"json.JSONDecodeError", "requests.JSONDecodeError"}}

CacheVacio == [lleno |-> FALSE, valor |-> None, guardado_en |-> 0]

\* a plausible slip: the ttl left out, so that an entry never expires
CacheVigente_sin_ttl == cache.lleno

\* st.cache_data(ttl=300): the entry is served while it is younger than the ttl
CacheVigente == cache.lleno /\ reloj - cache.guardado_en < TTL

SinEntorno == Entorno("ninguno", "ninguna", 0, None, "ninguno")

SinConsulta ==
    [modo |-> "ninguna", retorno |-> None, propagada |-> "ninguna", http |-> FALSE,
     entorno |-> SinEntorno]

Acierto(valor) ==
    [modo |-> "acierto", retorno |-> valor, propagada |-> "ninguna", http |-> FALSE,
     entorno |-> SinEntorno]

----------------------------------------------------------------------------
\* Texts.  A text is the sequence of its characters, so that str.lower and the
\* substring test "in" act on it as they do in the script.

MAYUSCULAS ==
    <<"A", "B", "C", "D", "E", "F", "G", "H", "I", "J", "K", "L", "M", "N", "O", "P",
      "Q", "R", "S", "T", "U", "V", "W", "X", "Y", "Z", "Á", "É", "Í", "Ó", "Ú", "Ñ">>

MINUSCULAS ==
    <<"a", "b", "c", "d", "e", "f", "g", "h", "i", "j", "k", "l", "m", "n", "o", "p",
      "q", "r", "s", "t", "u", "v", "w", "x", "y", "z", "á", "é", "í", "ó", "ú", "ñ">>

\* the lower-case letter of each upper-case letter
en_minuscula ==
    [c \in {MAYUSCULAS[k] : k \in DOMAIN MAYUSCULAS} |->
        MINUSCULAS[CHOOSE k \in DOMAIN MAYUSCULAS : MAYUSCULAS[k] = c]]

\* str.lower()
lower(t) ==
    [i \in DOMAIN t |-> IF t[i] \in DOMAIN en_minuscula THEN en_minuscula[t[i]] ELSE t[i]]

\* the test "sub in t"
contiene(t, sub) ==
    \E i \in 1..(Len(t) - Len(sub) + 1) : SubSeq(t, i, i + Len(sub) - 1) = sub

EspaciosEnBlanco == {" ", "\t", "\n"}

RECURSIVE lstrip(_)
lstrip(t) == IF t # <<>> /\ Head(t) \in EspaciosEnBlanco THEN lstrip(Tail(t)) ELSE t

RECURSIVE rstrip(_)
rstrip(t) ==
    IF t # <<>> /\ t[Len(t)] \in EspaciosEnBlanco THEN rstrip(SubSeq(t, 1, Len(t) - 1)) ELSE t

\* str.strip()
strip(t) == rstrip(lstrip(t))

\* the keywords of lines 533, 547, 559 and 566
clave_consumo == <<"c", "o", "n", "s", "u", "m", "o">>
clave_eficiencia == <<"e", "f", "i", "c", "i", "e", "n", "c", "i", "a">>
clave_sistema == <<"s", "i", "s", "t", "e", "m", "a">>
clave_datos == <<"d", "a", "t", "o", "s">>
clave_estado == <<"e", "s", "t", "a", "d", "o">>

\* the questions the four buttons of lines 480-490 store, in the order of the buttons
pregunta_consumo ==
    <<"¿", "C", "u", "á", "l", " ", "e", "s", " ", "e", "l", " ", "c", "o", "n", "s",
      "u", "m", "o", " ", "e", "n", "e", "r", "g", "é", "t", "i", "c", "o", " ", "a",
      "c", "t", "u", "a", "l", " ", "d", "e", " ", "e", "s", "t", "a", " ", "m", "á",
      "q", "u", "i", "n", "a", "?">>

pregunta_eficiencia ==
    <<"¿", "C", "ó", "m", "o", " ", "e", "s", "t", "á", " ", "l", "a", " ", "e", "f",
      "i", "c", "i", "e", "n", "c", "i", "a", " ", "e", "n", "e", "r", "g", "é", "t",
      "i", "c", "a", " ", "d", "e", " ", "e", "s", "t", "a", " ", "m", "á", "q", "u",
      "i", "n", "a", "?">>

pregunta_estado ==
    <<"¿", "C", "u", "á", "l", " ", "e", "s", " ", "e", "l", " ", "e", "s", "t", "a",
      "d", "o", " ", "a", "c", "t", "u", "a", "l", " ", "d", "e", " ", "l", "a", " ",
      "m", "á", "q", "u", "i", "n", "a", "?">>

pregunta_sistema ==
    <<"¿", "Q", "u", "é", " ", "i", "n", "f", "o", "r", "m", "a", "c", "i", "ó", "n",
      " ", "t", "i", "e", "n", "e", "s", " ", "d", "e", "l", " ", "s", "i", "s", "t",
      "e", "m", "a", " ", "d", "e", " ", "e", "n", "e", "r", "g", "í", "a", " ", "e",
      "n", " ", "t", "i", "e", "m", "p", "o", " ", "r", "e", "a", "l", "?">>

preguntas_sugeridas ==
    <<pregunta_consumo, pregunta_eficiencia, pregunta_estado, pregunta_sistema>>

----------------------------------------------------------------------------
\* One run of the script

\* numero_periodos and numero_periodos_calc
numero_periodos_pagina == ("Día" :> 30) @@ ("Semana" :> 24) @@ ("Mes" :> 12)

\* lines 393-397: the series behind the chart
serie_grafico(m, p) == generar_datos_energia(m, p, numero_periodos_pagina[p])

\* lines 615-633
metricas_globales(p) ==
    [i \in DOMAIN maquinas |->
        LET g == generar_datos_energia(maquinas[i], p, numero_periodos_pagina[p])
        IN  entrada_maquina(maquinas[i], g.frente_a_abt, g.frente_a_linea_base)]

\* everything a run computes from the widgets' values m and p
Ejecutar(m, p) ==
    /\ grafico' = serie_grafico(m, p)
    /\ todas_maquinas' = metricas_globales(p)

PeriodosPagina == {"Día", "Semana", "Mes"}

----------------------------------------------------------------------------
\* The replies of the assistant

\* the values a JSON object holds under a key: a number, a string or null
Numero(n) == [tipo |-> "number", num |-> n, txt |-> ""]
Cadena(t) == [tipo |-> "string", num |-> 0, txt |-> t]
Nulo == [tipo |-> "null", num |-> 0, txt |-> ""]

\* a dict with the fields f; a dict built by Dict(k) has none of the keys the
\* replies read
DictCampos(f) == [clase |-> "dict", tam |-> Cardinality(DOMAIN f), campos |-> f]

\* dict.get(clave, defecto)
get(d, clave, defecto) ==
    IF "campos" \in DOMAIN d /\ clave \in DOMAIN d.campos THEN d.campos[clave] ELSE defecto

\* the truth value Python gives a field value in "if tiempo_total"
cierto(v) ==
    CASE v.tipo = "number" -> v.num # 0
      [] v.tipo = "string" -> v.txt # ""
      [] OTHER -> FALSE

\* the strings float() reads as a number, with the number
numeros_escritos == ("480" :> 480) @@ ("360" :> 360)

\* float(v): the number, or the exception float raises
float(v) ==
    CASE v.tipo = "number" -> [exc |-> "ninguna", num |-> v.num]
      [] v.tipo = "string" ->
             IF v.txt \in DOMAIN numeros_escritos
             THEN [exc |-> "ninguna", num |-> numeros_escritos[v.txt]]
             ELSE [exc |-> "ValueError", num |-> 0]
      [] OTHER -> [exc |-> "TypeError", num |-> 0]

\* a reply of the branch rama, named by the words its text starts with
Respuesta(rama, texto) == [rama |-> rama, texto |-> texto, excepcion |-> "ninguna"]

\* an exception raised in the branch rama before respuesta is assigned
Excepcion(rama, exc) == [rama |-> rama, texto |-> "", excepcion |-> exc]

\* a plausible slip: 'estado' tested before the pair 'sistema' and 'datos'
rama_de_estado_antes(prompt) ==
    LET t == lower(prompt)
    IN  IF contiene(t, clave_consumo) THEN "consumo"
        ELSE IF contiene(t, clave_eficiencia) THEN "eficiencia"
        ELSE IF contiene(t, clave_estado) THEN "estado"
        ELSE IF contiene(t, clave_sistema) /\ contiene(t, clave_datos) THEN "sistema"
        ELSE "general"

\* the if/elif chain of lines 533-579
rama_de(prompt) ==
    LET t == lower(prompt)
    IN  IF contiene(t, clave_consumo) THEN "consumo"
        ELSE IF contiene(t, clave_eficiencia) THEN "eficiencia"
        ELSE IF contiene(t, clave_sistema) /\ contiene(t, clave_datos) THEN "sistema"
        ELSE IF contiene(t, clave_estado) THEN "estado"
        ELSE "general"

\* lines 547-557 with a dict stored
respuesta_eficiencia(datos) ==
    LET tiempo_total == get(datos, "pdnTotalTime", Numero(0))
        tiempo_efectivo == get(datos, "pdnEffectiveTime", Numero(0))
    IN  IF ~cierto(tiempo_total)
        THEN Respuesta("eficiencia", "Datos disponibles")
        ELSE IF float(tiempo_total).exc # "ninguna"
        THEN Excepcion("eficiencia", float(tiempo_total).exc)
        ELSE IF float(tiempo_total).num <= 0
        THEN Respuesta("eficiencia", "Datos disponibles")
        ELSE IF float(tiempo_efectivo).exc # "ninguna"
        THEN Excepcion("eficiencia", float(tiempo_efectivo).exc)
        ELSE Respuesta("eficiencia", "Eficiencia real del sistema")

\* lines 530-583: the reply without Gemini, for the value datos that
\* st.session_state.get("datos_endpoint", None) gives
respuesta_predefinida(prompt, datos, maquina, per) ==
    LET rama == rama_de(prompt)
        es_dict == Verdadero(datos) /\ datos.clase = "dict"
    IN  CASE rama = "consumo" ->
                 IF es_dict
                 THEN Respuesta(rama, "Datos reales del sistema")
                 ELSE LET g == generar_datos_energia(maquina, per, numero_periodos_pagina[per])
                      IN  IF g.error = "ninguno"
                          THEN Respuesta(rama, "consumo teórico promedio")
                          ELSE Excepcion(rama, g.error)
          [] rama = "eficiencia" ->
                 IF es_dict
                 THEN respuesta_eficiencia(datos)
                 ELSE Respuesta(rama, "La eficiencia energética se puede calcular")
          [] rama = "sistema" ->
                 IF ~Verdadero(datos)
                 THEN Respuesta(rama, "No hay datos del sistema disponibles")
                 ELSE IF datos.clase \in {"dict", "list"}
                 THEN Respuesta(rama, "Datos del sistema disponibles")
                 ELSE Excepcion(rama, "TypeError")
          [] rama = "estado" ->
                 IF es_dict
                 THEN Respuesta(rama, "Estado del sistema")
                 ELSE Respuesta(rama, "Estado actual")
          [] OTHER ->
                 IF ~Verdadero(datos)
                 THEN Respuesta(rama, "Analizando")
                 ELSE IF datos.clase = "dict"
                 THEN Respuesta(rama, "Sistema conectado con datos reales")
                 ELSE Excepcion(rama, "AttributeError")       \* a list has no get

\* what the Gemini library does in one call: it gives a text, or raises
Servicios == {"texto", "GoogleAPIError"}

\* lines 114-157
generar_respuesta_gemini(disponible, servicio) ==
    IF ~disponible
    THEN Respuesta("gemini", "Google Generative AI no está disponible")
    ELSE IF servicio = "texto"
    THEN Respuesta("gemini", "response.text")
    ELSE IF "Exception" \in Ancestros(servicio)
    THEN Respuesta("gemini", "Error al generar respuesta con Gemini")
    ELSE Excepcion("gemini", servicio)

\* an entry of st.session_state.mensajes; the content of a reply is the one
\* piece that names it
Mensaje(role, content) == [role |-> role, content |-> content]

\* lines 464-470
mensaje_bienvenida(api_key) ==
    Mensaje("assistant",
            IF api_key # ""
            THEN <<"¿En que puedo ayudarte", " Gemini 2.5 Pro activado.">>
            ELSE <<"¿En que puedo ayudarte">>)

SinProceso ==
    [origen |-> "ninguno", prompt |-> <<>>, modo |-> "ninguno", rama |-> "",
     excepcion |-> "ninguna"]

----------------------------------------------------------------------------
\* The session

\* the chat after the first run of a session in which the Gemini library is
\* missing (lines 275-278 and 460-478)
ChatInicial ==
    /\ GEMINI_AVAILABLE = FALSE
    /\ api_key_gemini = ""
    /\ mensajes = <<mensaje_bienvenida("")>>
    /\ pregunta_seleccionada = <<>>
    /\ ultimo_proceso = SinProceso

InitSesion ==
    /\ maquina_seleccionada = maquinas[1]          \* index=0
    /\ periodo_seleccionado = "Semana"             \* index=1
    /\ datos_endpoint = [presente |-> FALSE, valor |-> None]
    /\ cache = CacheVacio
    /\ reloj = 0
    /\ ultima_consulta = SinConsulta
    /\ grafico = serie_grafico(maquinas[1], "Semana")
    /\ todas_maquinas = metricas_globales("Semana")
    /\ referencia = [m \in {maquinas[i] : i \in DOMAIN maquinas}, p \in PeriodosPagina |->
                        serie_grafico(m, p)]
    /\ ChatInicial

Init == InitSesion /\ GenEnReposo /\ SumEnReposo

SeleccionarMaquina(m) ==
    /\ m # maquina_seleccionada
    /\ Ejecutar(m, periodo_seleccionado)
    /\ maquina_seleccionada' = m
    /\ ultima_consulta' = SinConsulta
    /\ UNCHANGED <<periodo_seleccionado, datos_endpoint, cache, reloj,
                   referencia, varsGen, varsSum, varsChat>>

SeleccionarPeriodo(p) ==
    /\ p # periodo_seleccionado
    /\ Ejecutar(maquina_seleccionada, p)
    /\ periodo_seleccionado' = p
    /\ ultima_consulta' = SinConsulta
    /\ UNCHANGED <<maquina_seleccionada, datos_endpoint, cache, reloj,
                   referencia, varsGen, varsSum, varsChat>>

\* the call through st.cache_data: a live entry is returned as it is; otherwise
\* the body runs and what it returns is stored
LlamarConCache(e) ==
    IF CacheVigente
    THEN /\ ultima_consulta' = Acierto(cache.valor)
         /\ cache' = cache
    ELSE LET r == consultar_endpoint_energia(e)
         IN  /\ ultima_consulta' = r
             /\ cache' = IF r.propagada = "ninguna"
                         THEN [lleno |-> TRUE, valor |-> r.retorno, guardado_en |-> reloj]
                         ELSE CacheVacio

\* button "Consultar Datos del Sistema" (lines 298-307), then the rest of the run
ConsultarDatosDelSistema ==
    /\ Ejecutar(maquina_seleccionada, periodo_seleccionado)
    /\ \E e \in Entornos :
        /\ LlamarConCache(e)
        /\ datos_endpoint' =
               IF ultima_consulta'.propagada = "ninguna" /\ Verdadero(ultima_consulta'.retorno)
               THEN [presente |-> TRUE, valor |-> ultima_consulta'.retorno]
               ELSE datos_endpoint
    /\ UNCHANGED <<maquina_seleccionada, periodo_seleccionado, reloj, referencia,
                   varsGen, varsSum, varsChat>>

\* button "Actualizar Datos" (lines 603-606): the run reaches the button, clears
\* the cache and st.rerun() runs the script again
ActualizarDatos ==
    /\ Ejecutar(maquina_seleccionada, periodo_seleccionado)
    /\ cache' = CacheVacio
    /\ ultima_consulta' = SinConsulta
    /\ UNCHANGED <<maquina_seleccionada, periodo_seleccionado, datos_endpoint, reloj,
                   referencia, varsGen, varsSum, varsChat>>

PasarTiempo ==
    /\ reloj + Paso <= MaxReloj
    /\ reloj' = reloj + Paso
    /\ UNCHANGED <<maquina_seleccionada, periodo_seleccionado, datos_endpoint, cache,
                   ultima_consulta, grafico, todas_maquinas, referencia, varsGen, varsSum, varsChat>>

Next ==
    \/ \E i \in DOMAIN maquinas : SeleccionarMaquina(maquinas[i])
    \/ \E p \in PeriodosPagina : SeleccionarPeriodo(p)
    \/ ConsultarDatosDelSistema
    \/ ActualizarDatos
    \/ PasarTiempo

Spec == Init /\ [][Next]_vars

----------------------------------------------------------------------------
\* The chat

\* the value st.session_state.get("datos_endpoint", None) gives
datos_guardados == IF datos_endpoint.presente THEN datos_endpoint.valor ELSE None

\* a run that processes no prompt
CorrerSinPrompt ==
    /\ Ejecutar(maquina_seleccionada, periodo_seleccionado)
    /\ ultima_consulta' = SinConsulta
    /\ ultimo_proceso' = SinProceso

\* lines 513-587.  An exception raised while the reply is built ends the run
\* after the user's message was appended; otherwise the reply is appended and
\* st.rerun() runs the script again.
Procesar(texto, origen) ==
    /\ Len(mensajes) + 2 <= MaxMensajes
    /\ ultima_consulta' = SinConsulta
    /\ \E r \in IF GEMINI_AVAILABLE /\ api_key_gemini # ""
                THEN {generar_respuesta_gemini(GEMINI_AVAILABLE, servicio) :
                          servicio \in Servicios}
                ELSE {respuesta_predefinida(texto, datos_guardados,
                                            maquina_seleccionada, periodo_seleccionado)} :
        /\ ultimo_proceso' =
               [origen |-> origen, prompt |-> texto,
                modo |-> IF GEMINI_AVAILABLE /\ api_key_gemini # ""
                         THEN "gemini" ELSE "predefinida",
                rama |-> r.rama, excepcion |-> r.excepcion]
        /\ IF r.excepcion = "ninguna"
           THEN /\ mensajes' = mensajes \o <<Mensaje("user", texto),
                                            Mensaje("assistant", <<r.texto>>)>>
                /\ Ejecutar(maquina_seleccionada, periodo_seleccionado)
           ELSE /\ mensajes' = Append(mensajes, Mensaje("user", texto))
                /\ grafico' = serie_grafico(maquina_seleccionada, periodo_seleccionado)
                /\ todas_maquinas' = todas_maquinas

\* one of the four buttons of lines 480-490, shown while the history is short
PulsarSugerida(i) ==
    /\ Len(mensajes) <= 6
    /\ pregunta_seleccionada' = preguntas_sugeridas[i]
    /\ CorrerSinPrompt
    /\ UNCHANGED <<maquina_seleccionada, periodo_seleccionado, datos_endpoint, cache, reloj,
                   referencia, GEMINI_AVAILABLE, api_key_gemini, mensajes, varsGen, varsSum>>

\* button "Enviar pregunta" (lines 499-506) with texto in the text field
EnviarPregunta(texto) ==
    /\ pregunta_seleccionada # <<>>
    /\ IF strip(texto) # <<>>
       THEN /\ pregunta_seleccionada' = <<>>
            /\ Procesar(texto, IF texto = pregunta_seleccionada THEN "precargada" ELSE "editada")
       ELSE /\ CorrerSinPrompt
            /\ UNCHANGED <<pregunta_seleccionada, mensajes>>
    /\ UNCHANGED <<maquina_seleccionada, periodo_seleccionado, datos_endpoint, cache, reloj,
                   referencia, GEMINI_AVAILABLE, api_key_gemini, varsGen, varsSum>>

\* st.chat_input (lines 507-510) given texto
EscribirEnChat(texto) ==
    /\ pregunta_seleccionada = <<>>
    /\ IF texto # <<>> /\ strip(texto) # <<>>
       THEN Procesar(texto, "chat_input")
       ELSE CorrerSinPrompt /\ UNCHANGED mensajes
    /\ UNCHANGED <<maquina_seleccionada, periodo_seleccionado, datos_endpoint, cache, reloj,
                   referencia, GEMINI_AVAILABLE, api_key_gemini, pregunta_seleccionada,
                   varsGen, varsSum>>

\* button "Limpiar Chat" (lines 596-600)
LimpiarChat ==
    /\ mensajes' = <<>>
    /\ pregunta_seleccionada' = <<>>
    /\ CorrerSinPrompt
    /\ UNCHANGED <<maquina_seleccionada, periodo_seleccionado, datos_endpoint, cache, reloj,
                   referencia, GEMINI_AVAILABLE, api_key_gemini, varsGen, varsSum>>

\* the API-key field of the sidebar (lines 279-285) given another text
ConfigurarApiKey(k) ==
    /\ GEMINI_AVAILABLE
    /\ k # api_key_gemini
    /\ api_key_gemini' = k
    /\ CorrerSinPrompt
    /\ UNCHANGED <<maquina_seleccionada, periodo_seleccionado, datos_endpoint, cache, reloj,
                   referencia, GEMINI_AVAILABLE, mensajes, pregunta_seleccionada,
                   varsGen, varsSum>>

----------------------------------------------------------------------------
\* The chat of a session, with or without the Gemini library and with any
\* value stored by an earlier fetch

\* prompts typed in the chat input
saludo ==
    <<"h", "o", "l", "a">>

consumo_y_eficiencia ==
    <<"C", "O", "N", "S", "U", "M", "O", " ", "y", " ", "E", "f", "i", "c", "i", "e",
      "n", "c", "i", "a">>

eficiencia_y_estado ==
    <<"e", "f", "i", "c", "i", "e", "n", "c", "i", "a", " ", "y", " ", "e", "s", "t",
      "a", "d", "o">>

estado_de_los_datos ==
    <<"E", "s", "t", "a", "d", "o", " ", "d", "e", " ", "l", "o", "s", " ", "D", "A",
      "T", "O", "S", " ", "d", "e", "l", " ", "S", "i", "s", "t", "e", "m", "a">>

en_blanco == <<" ", " ">>

PromptsEscritos ==
    {saludo, consumo_y_eficiencia, eficiencia_y_estado, estado_de_los_datos, en_blanco}

\* values a successful fetch can have stored
DatosGuardados ==
    {DictCampos(("pdnTotalTime" :> Cadena("480")) @@ ("pdnEffectiveTime" :> Numero(360))),
     DictCampos(("pdnTotalTime" :> Cadena("N/A")) @@ ("pdnEffectiveTime" :> Numero(360))),
     Dict(3),
     List(2)}

ApiKeys == {"", "AI-clave"}

InitChat ==
    /\ maquina_seleccionada = maquinas[1]
    /\ periodo_seleccionado = "Semana"
    /\ GEMINI_AVAILABLE \in BOOLEAN
    \* with the library installed, the stored value is only handed to the service
    /\ datos_endpoint \in {[presente |-> FALSE, valor |-> None]}
                              \cup {[presente |-> TRUE, valor |-> d] :
                                        d \in IF GEMINI_AVAILABLE THEN {List(2)}
                                                                  ELSE DatosGuardados}
    /\ cache = CacheVacio
    /\ reloj = 0
    /\ ultima_consulta = SinConsulta
    /\ grafico = serie_grafico(maquinas[1], "Semana")
    /\ todas_maquinas = metricas_globales("Semana")
    /\ referencia = [m \in {maquinas[i] : i \in DOMAIN maquinas}, p \in PeriodosPagina |->
                        serie_grafico(m, p)]
    /\ api_key_gemini = ""
    /\ mensajes = <<mensaje_bienvenida("")>>
    /\ pregunta_seleccionada = <<>>
    /\ ultimo_proceso = SinProceso
    /\ GenEnReposo
    /\ SumEnReposo

NextChat ==
    \/ \E i \in DOMAIN preguntas_sugeridas : PulsarSugerida(i)
    \/ EnviarPregunta(pregunta_seleccionada)
    \/ EnviarPregunta(en_blanco)
    \/ \E t \in PromptsEscritos : EscribirEnChat(t)
    \/ LimpiarChat
    \/ \E k \in ApiKeys : ConfigurarApiKey(k)

SpecChat == InitChat /\ [][NextChat]_vars

----------------------------------------------------------------------------
\* The stored endpoint data of a session through fetches, cache clears, chat
\* clears and prompts

PromptsBreves == {saludo, estado_de_los_datos}

NextDatos ==
    \/ ConsultarDatosDelSistema
    \/ ActualizarDatos
    \/ LimpiarChat
    \/ \E t \in PromptsBreves : EscribirEnChat(t)

SpecDatos == Init /\ [][NextDatos]_vars

----------------------------------------------------------------------------
\* Direct calls of generar_datos_energia with arbitrary arguments

Centros == {maquinas[i] : i \in DOMAIN maquinas} \cup {"UnknownMachine"}
Periodos == DOMAIN factor_periodo \cup {"Año"}
Puntos == (-1)..MaxPuntos

InitGen ==
    /\ centro \in Centros
    /\ periodo \in Periodos
    /\ numero_periodos \in Puntos
    /\ retorno = SinLlamar
    /\ SumEnReposo
    /\ InitSesion

LlamarGenerar ==
    /\ retorno = SinLlamar
    /\ retorno' = generar_datos_energia(centro, periodo, numero_periodos)
    /\ UNCHANGED <<centro, periodo, numero_periodos, varsSum, varsSesion, varsChat>>

NextGen == LlamarGenerar

SpecGen == InitGen /\ [][NextGen]_vars

----------------------------------------------------------------------------
\* Direct computation of one metrics entry from two arbitrary series

ValoresDePrueba == {-200, 0, 190, 200}

SeriesDePrueba ==
    UNION {[1..k -> ValoresDePrueba] : k \in 1..MaxSerie}

InitSum ==
    /\ teorico \in SeriesDePrueba
    /\ real \in SeriesDePrueba
    /\ resumen = SinResumen
    /\ GenEnReposo
    /\ InitSesion

Resumir ==
    /\ resumen = SinResumen
    /\ resumen' = entrada_maquina("prueba", teorico, real)
    /\ UNCHANGED <<teorico, real, varsGen, varsSesion, varsChat>>

NextSum == Resumir

SpecSum == InitSum /\ [][NextSum]_vars

----------------------------------------------------------------------------
\* Claims about generar_datos_energia, checked under SpecGen

Llamada == retorno # SinLlamar
MaquinaConocida == \E i \in DOMAIN maquinas : maquinas[i] = centro

\* the factors as the specification gives them: 1/7, 1, 4.33, and 1 otherwise
FactorEspecificado(p) ==
    CASE p = "Día" -> UNIDAD \div 7
      [] p = "Semana" -> UNIDAD
      [] p = "Mes" -> (433 * UNIDAD) \div 100
      [] OTHER -> UNIDAD

\* C1: for a known machine, any period and numero_periodos >= 1 (1 and 2
\* included), the first and the last point of both curves equal
\* base * factor(period).
C1_CierreEnBordes ==
    (Llamada /\ MaquinaConocida /\ numero_periodos >= 1) =>
        LET b == parametros[centro].base * FactorEspecificado(periodo)
            n == numero_periodos
        IN  /\ retorno.error = "ninguno"
            /\ Len(retorno.frente_a_abt) >= 1
            /\ Len(retorno.frente_a_linea_base) >= 1
            /\ retorno.frente_a_abt[1] = b
            /\ retorno.frente_a_abt[Len(retorno.frente_a_abt)] = b
            /\ retorno.frente_a_linea_base[1] = b
            /\ retorno.frente_a_linea_base[Len(retorno.frente_a_linea_base)] = b

\* H75 by week over 24 points: both ends are 180, the second point is not
C1_Testigo ==
    /\ Llamada /\ centro = "H75" /\ periodo = "Semana" /\ numero_periodos = 24
    /\ retorno.frente_a_abt[1] = 180 * UNIDAD
    /\ retorno.frente_a_abt[24] = 180 * UNIDAD
    /\ retorno.frente_a_linea_base[24] = 180 * UNIDAD
    /\ retorno.frente_a_abt[2] # 180 * UNIDAD
    /\ retorno.frente_a_abt[23] # 180 * UNIDAD

\* C2: for a known machine, any period and numero_periodos >= 1, the three
\* sequences have exactly numero_periodos elements and the index sequence is
\* 1, 2, ..., numero_periodos.
C2_LongitudesEIndice ==
    (Llamada /\ MaquinaConocida /\ numero_periodos >= 1) =>
        /\ retorno.error = "ninguno"
        /\ Len(retorno.tiempo) = numero_periodos
        /\ Len(retorno.frente_a_abt) = numero_periodos
        /\ Len(retorno.frente_a_linea_base) = numero_periodos
        /\ \A i \in 1..numero_periodos : retorno.tiempo[i] = i

C2_Testigo ==
    /\ Llamada /\ MaquinaConocida /\ periodo = "Mes" /\ numero_periodos = 12
    /\ retorno.tiempo = <<1, 2, 3, 4, 5, 6, 7, 8, 9, 10, 11, 12>>
    /\ Len(retorno.frente_a_abt) = 12

\* C3: a machine identifier outside the three defined ones makes the call
\* fail with the unknown-machine error (Python's KeyError from the lookup
\* parametros[centro]) and return no series, for every period and point count.
C3_MaquinaDesconocida ==
    (Llamada /\ ~MaquinaConocida) =>
        /\ retorno.error = "KeyError"
        /\ retorno.tiempo = <<>>
        /\ retorno.frente_a_abt = <<>>
        /\ retorno.frente_a_linea_base = <<>>

C3_Testigo ==
    /\ Llamada /\ centro = "UnknownMachine" /\ periodo = "Semana" /\ numero_periodos = 24
    /\ retorno.error = "KeyError"

\* C4: a call on a known machine with numero_periodos <= 0 is rejected with
\* InvalidArgumentError and no other kind of error.
C4_RechazoDeCuentaNoPositiva ==
    (Llamada /\ MaquinaConocida /\ numero_periodos <= 0) =>
        retorno.error = "InvalidArgumentError"

\* C5: the factor applied to base and both amplitudes is 1/7 by day, 1 by
\* week, 4.33 by month and 1 for any other period value, so that a call with
\* an unrecognized period does not fail and returns the series of Semana.
C5_FactorDePeriodo ==
    (Llamada /\ MaquinaConocida /\ numero_periodos >= 1) =>
        LET f == FactorEspecificado(periodo)
            m == parametros[centro]
            n == numero_periodos
        IN  /\ retorno.error = "ninguno"
            /\ retorno.frente_a_abt[1] = m.base * f
            /\ \A i \in 2..(n - 1) :
                /\ retorno.frente_a_abt[i] =
                       m.base * f + PorSeno(m.amplitud1 * f, seno_punto(i, n, m.fase1))
                /\ retorno.frente_a_linea_base[i] =
                       m.base * f - PorSeno(m.amplitud2 * f, seno_punto(i, n, m.fase2))
            /\ periodo \notin {"Día", "Semana", "Mes"} =>
                   retorno = generar_datos_energia(centro, "Semana", n)

C5_Testigo ==
    /\ Llamada /\ centro = "H75" /\ periodo = "Año" /\ numero_periodos = 24
    /\ retorno.error = "ninguno"
    /\ retorno.frente_a_abt[1] = 180 * UNIDAD
    /\ retorno.frente_a_abt[6] > 180 * UNIDAD + 30 * UNIDAD

----------------------------------------------------------------------------
\* Claims about the efficiency computation on arbitrary series, under SpecSum

Resumida == resumen # SinResumen

\* C8: when the theoretical mean is 0 the efficiency computation signals
\* DivisionByZeroError instead of producing an infinite or not-a-number value.
C8_ErrorPorMediaTeoricaCero ==
    (Resumida /\ media(teorico) = 0) =>
        /\ resumen.eficiencia.error = "DivisionByZeroError"
        /\ resumen.eficiencia.clase \notin {"-inf", "inf", "nan"}

----------------------------------------------------------------------------
\* Claims about the session, under Spec

C7_FormulaDeEficiencia ==
    /\ \A i \in DOMAIN maquinas :
        LET g == generar_datos_energia(maquinas[i], periodo_seleccionado,
                                       numero_periodos_pagina[periodo_seleccionado])
            mt == Suma(g.frente_a_abt) \div Len(g.frente_a_abt)
            ma == Suma(g.frente_a_linea_base) \div Len(g.frente_a_linea_base)
            d == IF ma >= mt THEN ma - mt ELSE mt - ma
        IN  /\ todas_maquinas[i].maquina = maquinas[i]
            /\ todas_maquinas[i].teorico = mt
            /\ todas_maquinas[i].real = ma
            /\ mt > 0
            /\ todas_maquinas[i].eficiencia =
                   [clase |-> "finito", error |-> "ninguno",
                    valor |-> (ESCALA - (d * ESCALA) \div mt) * 100]
    /\ eficiencia(200 * UNIDAD, 190 * UNIDAD).valor = 95 * ESCALA

C7_Testigo ==
    /\ periodo_seleccionado = "Mes"
    /\ todas_maquinas[2].real # todas_maquinas[2].teorico
    /\ todas_maquinas[2].eficiencia.clase = "finito"
    /\ todas_maquinas[2].eficiencia.valor < 100 * ESCALA
    /\ todas_maquinas[2].eficiencia.valor > 90 * ESCALA

\* the call did not end in a parsed response with a success status
Fallo(e) ==
    \/ e.secretos # "ok"
    \/ e.peticion # "respuesta"
    \/ e.status \notin 200..299
    \/ e.json # "ok"

\* C9: consultar_endpoint_energia never lets an exception out: on every
\* failure (missing credentials, timeout, connection error, any other request
\* error, non-2xx status, malformed JSON body) it returns None, and what it
\* returns otherwise is the parsed body of a response with a success status.
C9_NuncaPropagaExcepcion ==
    /\ ultima_consulta.propagada = "ninguna"
    /\ ultima_consulta.modo = "ejecutada" =>
        LET e == ultima_consulta.entorno
        IN  /\ Fallo(e) => ultima_consulta.retorno = None
            /\ ultima_consulta.retorno # None =>
                   /\ ~Fallo(e)
                   /\ ultima_consulta.retorno = e.cuerpo

\* a malformed body whose error is not a json.JSONDecodeError
C9_Testigo ==
    /\ ultima_consulta.modo = "ejecutada"
    /\ ultima_consulta.entorno.json = "requests.JSONDecodeError"
    /\ ultima_consulta.retorno = None
    /\ ultima_consulta.propagada = "ninguna"
    /\ ultima_consulta.http

\* the cache holds an entry stored less than 5 minutes ago
EnPlazo == cache.lleno /\ reloj - cache.guardado_en < 5 * 60

\* a run of the script that called consultar_endpoint_energia
PasoDeConsulta == ultima_consulta'.modo # "ninguna" /\ reloj' = reloj

\* a run that cleared the cache
PasoDeLimpieza == ultima_consulta'.modo = "ninguna" /\ cache' # cache

\* C10 as stated: a call within 300 seconds of the call that filled the cache
\* returns the same result without an HTTP request, and the next call after
\* the entry expired or the cache was cleared issues a new HTTP request.
C10_SiempreNuevaPeticion ==
    [][/\ PasoDeConsulta =>
            IF EnPlazo
            THEN /\ ultima_consulta'.modo = "acierto"
                 /\ ~ultima_consulta'.http
                 /\ ultima_consulta'.retorno = cache.valor
            ELSE cache.lleno => ultima_consulta'.http      \* the entry has expired
       /\ PasoDeLimpieza => ~EnPlazo'
      ]_vars

\* C10 as amended: a call within 300 seconds of the call that filled the cache
\* returns that call's result (data or None) without an HTTP request and
\* leaves the entry as it is; the next call after the entry expired or the
\* cache was cleared runs the function again and stores what it returns, with
\* a new HTTP request whenever the credentials are configured.
C10_CacheCincoMinutos ==
    [][/\ PasoDeConsulta =>
            IF EnPlazo
            THEN /\ ultima_consulta'.modo = "acierto"
                 /\ ~ultima_consulta'.http
                 /\ ultima_consulta'.retorno = cache.valor
                 /\ cache' = cache
            ELSE /\ ultima_consulta'.modo = "ejecutada"
                 /\ ultima_consulta'.entorno.secretos = "ok" => ultima_consulta'.http
                 /\ cache' = [lleno |-> TRUE, valor |-> ultima_consulta'.retorno,
                              guardado_en |-> reloj]
       /\ PasoDeLimpieza => ~EnPlazo'
       /\ (~PasoDeConsulta /\ ~PasoDeLimpieza) => cache' = cache
      ]_vars

\* a None stored after the start of the session and served again later
C10_Testigo ==
    /\ ultima_consulta.modo = "acierto"
    /\ ultima_consulta.retorno = None
    /\ cache.lleno /\ cache.valor = None
    /\ cache.guardado_en >= TTL
    /\ reloj > cache.guardado_en

----------------------------------------------------------------------------
\* Claims about the chat, checked under SpecChat

\* a prompt was processed in the last run
Procesado == ultimo_proceso.modo # "ninguno"

\* C11: a processed prompt leaves at the end of the history its user message
\* immediately followed by one assistant message, whatever the reply mode and
\* the stored endpoint data; so no two adjacent messages of the history have
\* the same role, and a history that is not empty ends with an assistant
\* message.
C11_UsuarioSeguidoDeAsistente ==
    /\ Procesado =>
           /\ Len(mensajes) >= 2
           /\ mensajes[Len(mensajes) - 1] = Mensaje("user", ultimo_proceso.prompt)
           /\ mensajes[Len(mensajes)].role = "assistant"
    /\ \A i \in 1..(Len(mensajes) - 1) : mensajes[i].role # mensajes[i + 1].role
    /\ mensajes # <<>> => mensajes[Len(mensajes)].role = "assistant"

\* the words each branch's replies start with (lines 538-583)
TextosDeRama ==
    [rama \in {"consumo", "eficiencia", "sistema", "estado", "general"} |->
        CASE rama = "consumo" -> {"Datos reales del sistema", "consumo teórico promedio"}
          [] rama = "eficiencia" -> {"Eficiencia real del sistema", "Datos disponibles",
                                     "La eficiencia energética se puede calcular"}
          [] rama = "sistema" -> {"Datos del sistema disponibles",
                                  "No hay datos del sistema disponibles"}
          [] rama = "estado" -> {"Estado del sistema", "Estado actual"}
          [] OTHER -> {"Sistema conectado con datos reales", "Analizando"}]

\* whether each branch's test matches the text t, in the priority order of the
\* branches
Coincidencias(t) ==
    <<contiene(lower(t), clave_consumo),
      contiene(lower(t), clave_eficiencia),
      contiene(lower(t), clave_sistema) /\ contiene(lower(t), clave_datos),
      contiene(lower(t), clave_estado)>>

OrdenDeRamas == <<"consumo", "eficiencia", "sistema", "estado">>

\* the earliest branch whose test matches t, or the fallback
PrimeraRama(t) ==
    LET c == Coincidencias(t)
    IN  IF \E i \in DOMAIN c : c[i]
        THEN OrdenDeRamas[CHOOSE i \in DOMAIN c : c[i] /\ \A j \in 1..(i - 1) : ~c[j]]
        ELSE "general"

\* C12: without Gemini (library missing or API key empty) the branch that
\* answers a prompt is the earliest, in the order 'consumo', 'eficiencia',
\* 'sistema' with 'datos', 'estado', whose keywords occur in the prompt
\* whatever their case, and the fallback when none occurs; every canned reply
\* in the history is a reply of that branch for the message it answers.
C12_PrioridadDeRamas ==
    /\ Procesado =>
           ((ultimo_proceso.modo = "predefinida") <=> (~GEMINI_AVAILABLE \/ api_key_gemini = ""))
    /\ ultimo_proceso.modo = "predefinida" =>
           ultimo_proceso.rama = PrimeraRama(ultimo_proceso.prompt)
    /\ \A i \in DOMAIN mensajes :
           /\ mensajes[i].role = "assistant"
           /\ \E rama \in DOMAIN TextosDeRama : mensajes[i].content[1] \in TextosDeRama[rama]
           => /\ i > 1
              /\ mensajes[i - 1].role = "user"
              /\ mensajes[i].content[1] \in TextosDeRama[PrimeraRama(mensajes[i - 1].content)]

\* a prompt with capitals that matches 'estado' and the pair 'sistema', 'datos'
\* was answered by the pair's branch
C12_Testigo ==
    /\ ultimo_proceso.modo = "predefinida"
    /\ ultimo_proceso.prompt = estado_de_los_datos
    /\ lower(ultimo_proceso.prompt) # ultimo_proceso.prompt
    /\ Coincidencias(ultimo_proceso.prompt)[3]
    /\ Coincidencias(ultimo_proceso.prompt)[4]
    /\ ultimo_proceso.rama = "sistema"
    /\ mensajes[Len(mensajes) - 1] = Mensaje("user", estado_de_los_datos)
    /\ mensajes[Len(mensajes)].content[1] \in TextosDeRama["sistema"]

\* the topic of each suggested question, in the order of the buttons
TemasSugeridos == <<"consumo", "eficiencia", "estado", "sistema">>

\* C14: without Gemini, the question a suggested-question button stored, sent
\* as it is, is answered by the branch of its topic (consumption, efficiency,
\* machine state, system data, in the order of the buttons) and never by the
\* fallback, with or without stored endpoint data.
C14_SugeridasPorSuRama ==
    \A i \in DOMAIN preguntas_sugeridas :
        /\ ultimo_proceso.modo = "predefinida"
        /\ ultimo_proceso.origen = "precargada"
        /\ ultimo_proceso.prompt = preguntas_sugeridas[i]
        => /\ ultimo_proceso.rama = TemasSugeridos[i]
           /\ ultimo_proceso.rama # "general"

----------------------------------------------------------------------------
\* Claims about the stored endpoint data, checked under SpecDatos

\* the call of this step returned a dict or a list that is not empty
ResultadoNoVacio ==
    /\ PasoDeConsulta
    /\ ultima_consulta'.propagada = "ninguna"
    /\ ultima_consulta'.retorno.clase \in {"dict", "list"}
    /\ ultima_consulta'.retorno.tam > 0

\* C13: 'Consultar Datos del Sistema' stores what the fetch returned exactly
\* when that is not empty; a fetch that returns None or an empty value,
\* 'Limpiar Chat', 'Actualizar Datos' and the processing of a prompt leave the
\* stored data as they were; once stored, data are never removed.
C13_SoloUnFetchConDatosEscribe ==
    [][/\ ResultadoNoVacio =>
              datos_endpoint' = [presente |-> TRUE, valor |-> ultima_consulta'.retorno]
       /\ ~ResultadoNoVacio => datos_endpoint' = datos_endpoint
       /\ datos_endpoint.presente => datos_endpoint'.presente]_vars

\* data were stored, the chat was cleared and a prompt processed, and a later
\* fetch that ran the request has returned None
C13_Testigo ==
    /\ datos_endpoint.presente
    /\ Verdadero(datos_endpoint.valor)
    /\ ultima_consulta.modo = "ejecutada"
    /\ ultima_consulta.http
    /\ ultima_consulta.retorno = None
    /\ mensajes # <<>>
    /\ mensajes[1].role = "user"

====
